---- MODULE Spec2Model ----
(***************************************************************************)
(* soaplib.serializers.primitive: the scalar codecs (Boolean, Date,        *)
(* DateTime) over element text, and the restriction emitter of String      *)
(* (add_to_schema) over a shared schema-entries registry.                  *)
(*                                                                         *)
(* Python values are tagged records; element text is a sequence of         *)
(* one-character strings, so that the regular expressions, int(), float()  *)
(* and isoformat() are computed character by character.                    *)
(***************************************************************************)
EXTENDS Integers, Sequences, FiniteSets, TLC

VARIABLES
    wire,       \* element.text of the element in flight: None or a str
    sent,       \* the value the last to_xml wrote into the element (None: a peer wrote it)
    op,         \* the last codec operation
    ret,        \* its outcome: a returned value or a raised exception
    entries,    \* schema_entries: the classes registered so far
    schema,     \* the schema document: the restriction nodes, in emission order
    pc,         \* per caller of add_to_schema: its position in the method
    tcls,       \* per caller: the bound type (cls) of its call
    node        \* per caller: index in schema of the restriction it holds

codec_vars == <<wire, sent, op, ret>>
schema_vars == <<entries, schema, pc, tcls, node>>
vars == <<wire, sent, op, ret, entries, schema, pc, tcls, node>>

----------------------------------------------------------------------------
(* Python values *)

None == [t |-> "None"]
PyStr(s) == [t |-> "str", s |-> s]
PyBool(b) == [t |-> "bool", b |-> b]
PyInt(n) == [t |-> "int", n |-> n]

Return(v) == [kind |-> "return", value |-> v, exc |-> "", fmt |-> "", args |-> <<>>]
Raise(e, f, a) == [kind |-> "raise", value |-> None, exc |-> e, fmt |-> f, args |-> a]

\* bool(x) of None and of a str
Truthy(x) == IF x.t = "None" THEN FALSE
             ELSE IF x.t = "str" THEN Len(x.s) > 0
             ELSE IF x.t = "bool" THEN x.b
             ELSE TRUE

\* x and y, which yields x itself when x is falsy
PyAnd(x, y) == IF Truthy(x) THEN y ELSE x

----------------------------------------------------------------------------
(* characters *)

DigitSeq == <<"0", "1", "2", "3", "4", "5", "6", "7", "8", "9">>
Digit == {DigitSeq[i] : i \in 1..Len(DigitSeq)}
DigitVal(c) == (CHOOSE i \in 1..Len(DigitSeq) : DigitSeq[i] = c) - 1
DigitChar(n) == DigitSeq[n + 1]

Upper == <<"A", "B", "C", "D", "E", "F", "G", "H", "I", "J", "K", "L", "M",
           "N", "O", "P", "Q", "R", "S", "T", "U", "V", "W", "X", "Y", "Z">>
Lower == <<"a", "b", "c", "d", "e", "f", "g", "h", "i", "j", "k", "l", "m",
           "n", "o", "p", "q", "r", "s", "t", "u", "v", "w", "x", "y", "z">>

\* str.lower(), character by character
LowerChar(c) == IF \E i \in 1..Len(Upper) : Upper[i] = c
                THEN Lower[CHOOSE i \in 1..Len(Upper) : Upper[i] = c]
                ELSE c
StrLower(s) == [i \in 1..Len(s) |-> LowerChar(s[i])]

\* "%0<w>d" % n
RECURSIVE Pad(_, _)
Pad(n, w) == IF w = 0 THEN <<>> ELSE Append(Pad(n \div 10, w - 1), DigitChar(n % 10))

\* the value of a run of decimal digits
RECURSIVE DigitsVal(_)
DigitsVal(s) == IF Len(s) = 0 THEN 0
                ELSE 10 * DigitsVal(SubSeq(s, 1, Len(s) - 1)) + DigitVal(s[Len(s)])

\* int(x): of an int, or of a str of digits with an optional sign
int(x) == IF x.t = "int" THEN x.n
          ELSE IF x.s[1] = "-" THEN 0 - DigitsVal(Tail(x.s))
          ELSE IF x.s[1] = "+" THEN DigitsVal(Tail(x.s))
          ELSE DigitsVal(x.s)

----------------------------------------------------------------------------
(* regular expressions: a pattern is a sequence of tokens, concatenated as *)
(* the source concatenates the pattern strings                             *)

GroupNames == {"year", "month", "day", "hr", "min", "sec", "sec_frac", "tz_hr", "tz_min"}

\* one character out of chars, captured into group g ("" for none)
Tok(chars, g) == [kind |-> "char", chars |-> chars, group |-> g]
\* \d{n} inside the named group g
RECURSIVE Digits(_, _)
Digits(n, g) == IF n = 0 THEN <<>> ELSE <<Tok(Digit, g)>> \o Digits(n - 1, g)
Lit(c) == <<Tok({c}, "")>>
\* (?P<sec_frac>\.\d+)?
OptFrac == <<[kind |-> "optfrac", chars |-> {}, group |-> "sec_frac"]>>

\* a str holding a pattern, and the object re.compile makes of it
PatStr(toks) == [type |-> "str", toks |-> toks]
PatCat(a, b) == PatStr(a.toks \o b.toks)
re_compile(p) == [type |-> "SRE_Pattern", toks |-> p.toks]

date_pattern == PatStr(Digits(4, "year") \o Lit("-") \o Digits(2, "month")
                       \o Lit("-") \o Digits(2, "day"))
time_pattern == PatStr(Digits(2, "hr") \o Lit(":") \o Digits(2, "min") \o Lit(":")
                       \o Digits(2, "sec") \o OptFrac)
offset_pattern == PatStr(<<Tok({"+", "-"}, "tz_hr")>> \o Digits(2, "tz_hr")
                         \o Lit(":") \o Digits(2, "tz_min"))
datetime_pattern == PatCat(PatCat(date_pattern, PatStr(<<Tok({"T", " "}, "")>>)),
                           time_pattern)

local_re == re_compile(datetime_pattern)
utc_re == re_compile(PatCat(datetime_pattern, PatStr(Lit("Z"))))
offset_re == re_compile(PatCat(datetime_pattern, offset_pattern))

NoGroups == [g \in GroupNames |-> <<>>]
NoMatch == [ok |-> FALSE, g |-> NoGroups, end |-> 0]

\* the number of consecutive digits of text from position j on
RECURSIVE DigitRun(_, _)
DigitRun(text, j) == IF j <= Len(text) /\ text[j] \in Digit
                     THEN 1 + DigitRun(text, j + 1) ELSE 0

\* The backtracking matcher: tokens i.. of toks against text from position j,
\* with the groups g captured so far. The pattern has no end anchor, so the
\* match succeeds as soon as the tokens are used up, whatever text follows;
\* end is match.end(), the number of characters matched.
RECURSIVE MatchAt(_, _, _, _, _)
RECURSIVE TryFrac(_, _, _, _, _, _)
MatchAt(toks, text, i, j, g) ==
    IF i > Len(toks) THEN [ok |-> TRUE, g |-> g, end |-> j - 1]
    ELSE IF toks[i].kind = "char"
    THEN IF j <= Len(text) /\ text[j] \in toks[i].chars
         THEN MatchAt(toks, text, i + 1, j + 1,
                      IF toks[i].group = "" THEN g
                      ELSE [g EXCEPT ![toks[i].group] = Append(@, text[j])])
         ELSE NoMatch
    ELSE TryFrac(toks, text, i, j, g,
                 IF j <= Len(text) /\ text[j] = "." THEN DigitRun(text, j + 1) ELSE 0)
\* the optional group, greedy: n digits after the point, then fewer, then none
TryFrac(toks, text, i, j, g, n) ==
    IF n = 0 THEN MatchAt(toks, text, i + 1, j, g)
    ELSE LET r == MatchAt(toks, text, i + 1, j + 1 + n,
                          [g EXCEPT !["sec_frac"] = SubSeq(text, j, j + n)])
         IN IF r.ok THEN r ELSE TryFrac(toks, text, i, j, g, n - 1)

\* pattern.match(text): anchored at the start of text only
re_match(re, text) == MatchAt(re.toks, text, 1, 1, NoGroups)

\* match.groupdict(default): a group that took no part maps to default
groupdict(m, default) == [n \in GroupNames |-> IF m.g[n] = <<>> THEN default ELSE PyStr(m.g[n])]

----------------------------------------------------------------------------
(* float: IEEE-754 binary64, value m * 2^e with m a sequence of bits, least *)
(* significant first, holding at most Precision + 1 bits after rounding     *)

Precision == 53
\* enough binary places for the quotient of float() to exceed Precision bits
GuardBits == 84

\* the bits of a small number n < 2^IntBits, and the small number of a few bits
IntBits == 30
Trim(b) == LET ones == {i \in 1..Len(b) : b[i] = 1}
           IN IF ones = {} THEN <<>>
              ELSE SubSeq(b, 1, CHOOSE i \in ones : \A k \in ones : k <= i)
BitsOf(n) == Trim([i \in 1..IntBits |-> (n \div (2 ^ (i - 1))) % 2])

RECURSIVE BitsValIn(_, _, _)
BitsValIn(b, lo, hi) ==
    IF lo > hi THEN 0
    ELSE IF lo = hi THEN b[lo]
    ELSE LET mid == (lo + hi) \div 2
         IN BitsValIn(b, lo, mid) + (2 ^ (mid - lo + 1)) * BitsValIn(b, mid + 1, hi)
BitsVal(b) == BitsValIn(b, 1, Len(b))

Zeros(k) == [i \in 1..k |-> 0]

\* b + 1
Inc(b) == LET zs == {i \in 1..Len(b) : b[i] = 0}
          IN IF zs = {} THEN Zeros(Len(b)) \o <<1>>
             ELSE LET k == CHOOSE i \in zs : \A j \in zs : i <= j
                  IN [i \in 1..Len(b) |-> IF i < k THEN 0 ELSE IF i = k THEN 1 ELSE b[i]]

\* Long division of the bits hi..lo of b by the small number q, with rem
\* carried in from the bits above hi: the upper half first, then the lower.
RECURSIVE DivStep(_, _, _, _, _)
DivStep(b, q, lo, hi, rem) ==
    IF lo > hi THEN [quot |-> <<>>, rem |-> rem]
    ELSE IF lo = hi
    THEN LET cur == 2 * rem + b[lo]
         IN IF cur >= q THEN [quot |-> <<1>>, rem |-> cur - q]
            ELSE [quot |-> <<0>>, rem |-> cur]
    ELSE LET mid == (lo + hi) \div 2
             up == DivStep(b, q, mid + 1, hi, rem)
         IN IF up.rem < q
            THEN LET dn == DivStep(b, q, lo, mid, up.rem)
                 IN [quot |-> dn.quot \o up.quot, rem |-> dn.rem]
            ELSE [quot |-> <<>>, rem |-> q]     \* never: a remainder is below q

\* The bits lo..hi of b times the small number c, with carry coming in from
\* the bits below lo: the lower half first, then the upper.
RECURSIVE MulStep(_, _, _, _, _)
MulStep(b, c, lo, hi, carry) ==
    IF lo > hi THEN [prod |-> <<>>, carry |-> carry]
    ELSE IF lo = hi
    THEN LET t == b[lo] * c + carry
         IN [prod |-> <<t % 2>>, carry |-> t \div 2]
    ELSE LET mid == (lo + hi) \div 2
             dn == MulStep(b, c, lo, mid, carry)
         IN IF dn.carry < c
            THEN LET up == MulStep(b, c, mid + 1, hi, dn.carry)
                 IN [prod |-> dn.prod \o up.prod, carry |-> up.carry]
            ELSE [prod |-> <<>>, carry |-> c]   \* never: a carry is below c
MulSmall(b, c) == LET r == MulStep(b, c, 1, Len(b), 0) IN Trim(r.prod \o BitsOf(r.carry))

\* round to nearest, ties to even, to Precision bits; sticky: a nonzero part
\* below the last bit of b has been dropped already
RoundBits(b, sticky) ==
    LET L == Len(b)
        s == L - Precision
    IN IF s <= 0 THEN [m |-> b, e |-> 0]
       ELSE LET keep == SubSeq(b, s + 1, L)
                low == sticky \/ (\E i \in 1..(s - 1) : b[i] = 1)
                up == b[s] = 1 /\ (low \/ keep[1] = 1)
            IN [m |-> IF up THEN Inc(keep) ELSE keep, e |-> s]

FloatZero == [m |-> <<>>, e |-> 0]

\* float(x) of the int 0 and of a str ".ddd": the double nearest to ddd / 10^n
float(x) ==
    IF x.t = "int" THEN [m |-> BitsOf(x.n), e |-> 0]
    ELSE LET ds == Tail(x.s)
             d == DigitsVal(ds)
             q == DivStep(Zeros(GuardBits) \o BitsOf(d), 10 ^ Len(ds),
                          1, GuardBits + Len(BitsOf(d)), 0)
             r == RoundBits(Trim(q.quot), q.rem # 0)
         IN IF d = 0 THEN FloatZero ELSE [m |-> r.m, e |-> r.e - GuardBits]

\* f * c for a float f and a small int c (exact as a float): one rounding
FloatMulInt(f, c) ==
    LET r == RoundBits(MulSmall(f.m, c), FALSE)
    IN [m |-> r.m, e |-> f.e + r.e]

\* int(f) of a float f >= 0: truncation
IntOfFloat(f) ==
    IF f.e >= 0 THEN BitsVal(Zeros(f.e) \o f.m)
    ELSE IF 0 - f.e >= Len(f.m) THEN 0
    ELSE BitsVal(SubSeq(f.m, 1 - f.e, Len(f.m)))

\* int(float(fields.get("sec_frac", 0)) * 10 ** 6)
Microsec(frac) == IntOfFloat(FloatMulInt(float(frac), 1000000))

----------------------------------------------------------------------------
(* datetime.date, datetime.datetime, pytz *)

IsLeap(y) == (y % 4 = 0 /\ y % 100 # 0) \/ y % 400 = 0
DaysIn(y, m) == IF m = 2 THEN (IF IsLeap(y) THEN 29 ELSE 28)
                ELSE IF m \in {4, 6, 9, 11} THEN 30 ELSE 31

\* datetime.date(year, month, day)
date(year, month, day) ==
    IF year < 1 \/ year > 9999 THEN Raise("ValueError", "year is out of range", <<>>)
    ELSE IF month < 1 \/ month > 12 THEN Raise("ValueError", "month must be in 1..12", <<>>)
    ELSE IF day < 1 \/ day > DaysIn(year, month)
    THEN Raise("ValueError", "day is out of range for month", <<>>)
    ELSE Return([t |-> "date", year |-> year, month |-> month, day |-> day])

\* datetime.datetime(year, month, day, hour, minute, second, microsecond, tzinfo)
datetime(year, month, day, hr, min, sec, microsec, tz) ==
    IF date(year, month, day).kind = "raise" THEN date(year, month, day)
    ELSE IF hr > 23 THEN Raise("ValueError", "hour must be in 0..23", <<>>)
    ELSE IF min > 59 THEN Raise("ValueError", "minute must be in 0..59", <<>>)
    ELSE IF sec > 59 THEN Raise("ValueError", "second must be in 0..59", <<>>)
    ELSE IF microsec > 999999
    THEN Raise("ValueError", "microsecond must be in 0..999999", <<>>)
    ELSE Return([t |-> "datetime", year |-> year, month |-> month, day |-> day,
                 hour |-> hr, minute |-> min, second |-> sec,
                 microsecond |-> microsec, tzinfo |-> tz])

\* pytz.utc, and pytz.FixedOffset(offset), which is pytz.utc for offset 0
utc == [t |-> "UTC", offset |-> 0]
FixedOffset(offset) == IF offset = 0 THEN utc ELSE [t |-> "FixedOffset", offset |-> offset]
MinutesPerDay == 1440

\* the zone class and the utcoffset() in minutes of a tzinfo
ZoneClass(tz) == IF tz.t = "None" THEN "naive" ELSE tz.t
UtcOffset(tz) == IF tz.t = "None" THEN 0 ELSE tz.offset

\* date.isoformat(): YYYY-MM-DD
DateIso(v) == Pad(v.year, 4) \o <<"-">> \o Pad(v.month, 2) \o <<"-">> \o Pad(v.day, 2)

\* datetime.isoformat('T'): YYYY-MM-DDTHH:MM:SS[.ffffff][+HH:MM]
DateTimeIso(v) ==
    DateIso(v) \o <<"T">> \o Pad(v.hour, 2) \o <<":">> \o Pad(v.minute, 2)
    \o <<":">> \o Pad(v.second, 2)
    \o (IF v.microsecond # 0 THEN <<".">> \o Pad(v.microsecond, 6) ELSE <<>>)
    \o (IF v.tzinfo.t = "None" THEN <<>>
        ELSE LET off == v.tzinfo.offset
                 mag == IF off < 0 THEN 0 - off ELSE off
             IN <<IF off < 0 THEN "-" ELSE "+">> \o Pad(mag \div 60, 2)
                \o <<":">> \o Pad(mag % 60, 2))

----------------------------------------------------------------------------
(* the codecs *)

\* x.match(text): the method exists on a compiled pattern, not on a str
CallMatch(x, text) ==
    IF x.type # "SRE_Pattern"
    THEN [exc |-> Raise("AttributeError", "'str' object has no attribute 'match'", <<>>),
          m |-> NoMatch]
    ELSE IF text.t # "str"
    THEN [exc |-> Raise("TypeError", "expected string or buffer", <<>>), m |-> NoMatch]
    ELSE [exc |-> Return(None), m |-> re_match(x, text.s)]

\* Date.from_xml's parse_date
DateParseDate(date_match) ==
    LET fields == groupdict(date_match, PyInt(0))
    IN date(int(fields["year"]), int(fields["month"]), int(fields["day"]))

\* Date.from_xml on an element with this text
Date_from_xml(text) ==
    LET c == CallMatch(date_pattern, text)
    IN IF c.exc.kind = "raise" THEN c.exc
       ELSE IF ~c.m.ok THEN Raise("Exception", "Date [%s] not in known format", <<text>>)
       ELSE DateParseDate(c.m)

\* DateTime.from_xml's parse_date
parse_date(date_match, tz) ==
    LET fields == groupdict(date_match, PyInt(0))
    IN datetime(int(fields["year"]), int(fields["month"]), int(fields["day"]),
                int(fields["hr"]), int(fields["min"]), int(fields["sec"]),
                Microsec(fields["sec_frac"]), tz)

\* tz_hr * 60 + tz_min, tz_hr being int() of the signed hour group
OffsetMinutes(m) == int(PyStr(m.g["tz_hr"])) * 60 + int(PyStr(m.g["tz_min"]))

\* DateTime.from_xml on an element with this text
DateTime_from_xml(text) ==
    LET u == CallMatch(utc_re, text)
        o == CallMatch(offset_re, text)
        l == CallMatch(local_re, text)
    IN IF u.exc.kind = "raise" THEN u.exc
       ELSE IF u.m.ok THEN parse_date(u.m, utc)
       ELSE IF o.m.ok
       THEN \* pytz refuses an offset of a day or more
            IF OffsetMinutes(o.m) >= MinutesPerDay \/ OffsetMinutes(o.m) <= 0 - MinutesPerDay
            THEN Raise("ValueError", "absolute offset is too large", <<>>)
            ELSE parse_date(o.m, FixedOffset(OffsetMinutes(o.m)))
       ELSE IF ~l.m.ok THEN Raise("Exception", "DateTime [%s] not in known format", <<text>>)
       ELSE parse_date(l.m, None)

\* Boolean.from_xml on an element with this text: s and s.lower()[0] == 't'
Boolean_from_xml(s) ==
    Return(PyAnd(s, IF s.t = "str" /\ Len(s.s) > 0
                    THEN PyBool(StrLower(s.s)[1] = "t") ELSE None))

\* str(bool(value)).lower()
BooleanText(value) == IF Truthy(value) THEN <<"t", "r", "u", "e">>
                      ELSE <<"f", "a", "l", "s", "e">>

----------------------------------------------------------------------------
(* String and its restriction in the schema *)

\* str(x) of an int >= 0 and of a str
RECURSIVE StrOfNat(_)
StrOfNat(n) == IF n < 10 THEN <<DigitChar(n)>>
               ELSE Append(StrOfNat(n \div 10), DigitChar(n % 10))
str(x) == IF x.t = "int" THEN StrOfNat(x.n) ELSE x.s

\* String.Attributes: the defaults of the unbound type
String_Attributes == [min_len |-> PyInt(0),
                      max_len |-> PyStr(<<"u", "n", "b", "o", "u", "n", "d", "e", "d">>),
                      pattern |-> None]

\* SimpleType.is_default(cls): the attributes every simple type has (nillable,
\* min_occurs, ...) are the defaults; a bound type records it in base_default
SimpleType_is_default(cls) == cls.base_default

\* String.is_default(cls)
is_default(cls) ==
    /\ SimpleType_is_default(cls)
    /\ cls.min_len = String_Attributes.min_len
    /\ cls.max_len = String_Attributes.max_len
    /\ cls.pattern = String_Attributes.pattern

\* schema_entries.has_class(cls)
has_class(ents, cls) == cls \in ents

\* cls.get_restriction_tag(schema_entries): registers cls and adds its
\* restriction node, still without facets, to the schema
get_restriction_tag(ents, sch, cls) ==
    [entries |-> ents \cup {cls}, schema |-> Append(sch, [cls |-> cls, facets |-> <<>>])]

Facet(tag, value) == [tag |-> tag, value |-> value]

\* the condition under which add_to_schema emits at all
ShouldEmitNoCheck(ents, cls) == ~is_default(cls)
ShouldEmit(ents, cls) == ~has_class(ents, cls) /\ ~is_default(cls)

\* add_to_schema's "# length" block
LengthFacetsAlways(cls) ==
    IF cls.min_len = cls.max_len
    THEN <<Facet("length", str(cls.min_len))>>
    ELSE <<Facet("minLength", str(cls.min_len))>>
         \o (IF cls.max_len # String_Attributes.max_len
             THEN <<Facet("maxLength", str(cls.max_len))>> ELSE <<>>)
LengthFacets(cls) ==
    IF cls.min_len = cls.max_len
    THEN <<Facet("length", str(cls.min_len))>>
    ELSE (IF cls.min_len # String_Attributes.min_len
          THEN <<Facet("minLength", str(cls.min_len))>> ELSE <<>>)
         \o (IF cls.max_len # String_Attributes.max_len
             THEN <<Facet("maxLength", str(cls.max_len))>> ELSE <<>>)

\* add_to_schema's "# pattern" block
PatternFacets(cls) ==
    IF cls.pattern # String_Attributes.pattern
    THEN <<Facet("pattern", cls.pattern.s)>> ELSE <<>>

\* the facets appended to the restriction node at index n of the schema
AppendFacets(sch, n, facets) == [sch EXCEPT ![n].facets = @ \o facets]

----------------------------------------------------------------------------
(* the values and the element texts the codecs are driven with *)

Years == {1, 2020, 2021, 9999}
DayChoices == {1, 15, 28, 29, 30, 31}
Dates == {d \in [t : {"date"}, year : Years, month : 1..12, day : DayChoices] :
            d.day <= DaysIn(d.year, d.month)}

Zones == {None, utc, FixedOffset(120), FixedOffset(330), FixedOffset(0 - 300),
          FixedOffset(0 - 330), FixedOffset(0 - 30)}
DateTimes == {v \in [t : {"datetime"}, year : {1, 2020}, month : {2, 12}, day : {1, 29},
                      hour : {0, 23}, minute : {30}, second : {0, 59},
                      microsecond : {0, 1, 15700, 123000, 500000, 999999},
                      tzinfo : Zones] :
                v.day <= DaysIn(v.year, v.month)}

\* the bound types String(...): min_len, max_len, pattern, and whether the
\* attributes of SimpleType were left at their defaults
Classes == [min_len : {PyInt(0), PyInt(1), PyInt(10)},
            max_len : {String_Attributes.max_len, PyInt(1), PyInt(10)},
            pattern : {None, PyStr(<<"[", "a", "-", "z", "]", "+">>)},
            base_default : BOOLEAN]
\* the number of add_to_schema calls in a schema-building pass
MaxCalls == 2
\* the number of callers of add_to_schema running at once
NumThreads == 2

Booleans == {PyBool(TRUE), PyBool(FALSE)}

\* texts a peer may send: dates and datetimes, well-formed and not
DateText(y, m, d) == Pad(y, 4) \o <<"-">> \o Pad(m, 2) \o <<"-">> \o Pad(d, 2)
TimeText(h, m, x) == Pad(h, 2) \o <<":">> \o Pad(m, 2) \o <<":">> \o Pad(x, 2)
DateParts == {DateText(2020, 2, 29), DateText(2020, 1, 15), DateText(2020, 13, 40),
              DateText(2021, 2, 29), <<"2", "0", "-", "1", "-", "1", "5">>}
SepParts == {<<"T">>, <<" ">>, <<"t">>}
TimeParts == {TimeText(10, 30, 0), TimeText(23, 59, 59), TimeText(24, 0, 0),
              <<"1", "0", ":", "3", "0">>}
FracParts == {<<>>, <<".">>, <<".", "5">>, <<".", "1", "2", "3">>,
              <<".", "0", "1", "5", "7">>, <<".", "1", "2", "3", "4", "5", "6", "7">>,
              <<".", "9", "9", "9", "9", "9", "9", "9", "9", "9">>}
SuffixParts == {<<>>, <<"Z">>, <<"z">>, <<"Z", "x">>, <<" ">>,
                <<"+", "0", "5", ":", "3", "0">>, <<"-", "0", "5", ":", "3", "0">>,
                <<"-", "0", "0", ":", "3", "0">>, <<"+", "0", "2", ":", "0", "0">>,
                <<"+", "0", "0", ":", "0", "0">>, <<"+", "2", "4", ":", "0", "0">>,
                <<"+", "0", "5", "3", "0">>, <<"+", "0", "5", ":", "3", "0", "x">>}
BooleanTexts == {<<>>, <<"t">>, <<"T">>, <<"f">>, <<"0">>, <<"1">>,
                 <<"t", "r", "u", "e">>, <<"T", "r", "u", "e">>, <<"T", "R", "U", "E">>,
                 <<"f", "a", "l", "s", "e">>, <<"F", "a", "l", "s", "e">>,
                 <<" ", "t", "r", "u", "e">>, <<"y", "e", "s">>, <<"t", "w", "o">>}
PeerTexts ==
    {d \o x : d \in DateParts, x \in {<<>>, <<"x">>, <<"Z">>}}
    \cup {d \o p \o c \o f \o z : d \in DateParts, p \in SepParts, c \in TimeParts,
                                 f \in FracParts, z \in SuffixParts}
    \cup BooleanTexts

----------------------------------------------------------------------------
Init ==
    /\ wire = None
    /\ sent = None
    /\ op = "init"
    /\ ret = Return(None)
    /\ entries = {}
    /\ schema = <<>>
    /\ pc = <<>>
    /\ tcls = <<>>
    /\ node = <<>>

\* The codecs keep no state between calls, so one element is followed: it is
\* written once, by a peer or by a to_xml, and then read by the from_xml's.

\* a peer's element arrives: any text, or no text at all
Receive ==
    \E x \in {PyStr(text) : text \in PeerTexts} \cup {None} :
        /\ op = "init"
        /\ wire' = x
        /\ sent' = None
        /\ op' = "receive"
        /\ ret' = Return(None)
        /\ UNCHANGED schema_vars

\* Date.to_xml(value, ...): string_to_xml(cls, value.isoformat(), ...)
Date_to_xml ==
    \E value \in Dates :
        /\ op = "init"
        /\ wire' = PyStr(DateIso(value))
        /\ sent' = value
        /\ op' = "Date.to_xml"
        /\ ret' = Return(None)
        /\ UNCHANGED schema_vars

\* DateTime.to_xml(value, ...): string_to_xml(cls, value.isoformat('T'), ...)
DateTime_to_xml ==
    \E value \in DateTimes :
        /\ op = "init"
        /\ wire' = PyStr(DateTimeIso(value))
        /\ sent' = value
        /\ op' = "DateTime.to_xml"
        /\ ret' = Return(None)
        /\ UNCHANGED schema_vars

\* Boolean.to_xml(value, ...): string_to_xml(cls, str(bool(value)).lower(), ...)
Boolean_to_xml ==
    \E value \in Booleans :
        /\ op = "init"
        /\ wire' = PyStr(BooleanText(value))
        /\ sent' = value
        /\ op' = "Boolean.to_xml"
        /\ ret' = Return(None)
        /\ UNCHANGED schema_vars

\* Date.from_xml(element) on the element in flight
DateFromXml ==
    /\ op # "init"
    /\ op' = "Date.from_xml"
    /\ ret' = Date_from_xml(wire)
    /\ UNCHANGED <<wire, sent>>
    /\ UNCHANGED schema_vars

\* DateTime.from_xml(element) on the element in flight
DateTimeFromXml ==
    /\ op # "init"
    /\ op' = "DateTime.from_xml"
    /\ ret' = DateTime_from_xml(wire)
    /\ UNCHANGED <<wire, sent>>
    /\ UNCHANGED schema_vars

\* Boolean.from_xml(element) on the element in flight
BooleanFromXml ==
    /\ op # "init"
    /\ op' = "Boolean.from_xml"
    /\ ret' = Boolean_from_xml(wire)
    /\ UNCHANGED <<wire, sent>>
    /\ UNCHANGED schema_vars

Next ==
    \/ Receive
    \/ Date_to_xml
    \/ DateTime_to_xml
    \/ Boolean_to_xml
    \/ DateFromXml
    \/ DateTimeFromXml
    \/ BooleanFromXml

Spec == Init /\ [][Next]_vars

----------------------------------------------------------------------------
(* add_to_schema, one call after the other *)

\* String.add_to_schema(schema_entries) of the bound type cls, as a whole
AddToSchema ==
    \E cls \in Classes :
        /\ Len(tcls) < MaxCalls
        /\ tcls' = Append(tcls, cls)
        /\ pc' = Append(pc, "done")
        /\ IF ShouldEmit(entries, cls)
           THEN LET r == get_restriction_tag(entries, schema, cls)
                    n == Len(r.schema)
                IN /\ entries' = r.entries
                   /\ schema' = AppendFacets(AppendFacets(r.schema, n, LengthFacets(cls)),
                                             n, PatternFacets(cls))
                   /\ node' = Append(node, n)
           ELSE /\ UNCHANGED <<entries, schema>>
                /\ node' = Append(node, 0)
        /\ UNCHANGED codec_vars

SchemaNext == AddToSchema

SchemaSpec == Init /\ [][SchemaNext]_vars

----------------------------------------------------------------------------
(* add_to_schema called by several threads on one registry: the method     *)
(* holds no lock, so a thread may be switched out between any two of its   *)
(* statements                                                              *)

\* a thread calls cls.add_to_schema(schema_entries)
Begin ==
    \E cls \in Classes :
        /\ Len(tcls) < NumThreads
        /\ tcls' = Append(tcls, cls)
        /\ pc' = Append(pc, "check")
        /\ node' = Append(node, 0)
        /\ UNCHANGED <<entries, schema>>
        /\ UNCHANGED codec_vars

\* if not schema_entries.has_class(cls) and not cls.is_default(cls):
Check ==
    \E i \in 1..Len(pc) :
        /\ pc[i] = "check"
        /\ pc' = [pc EXCEPT ![i] = IF ShouldEmit(entries, tcls[i])
                                   THEN "restriction" ELSE "done"]
        /\ UNCHANGED <<entries, schema, tcls, node>>
        /\ UNCHANGED codec_vars

\* restriction = cls.get_restriction_tag(schema_entries)
GetRestrictionTag ==
    \E i \in 1..Len(pc) :
        /\ pc[i] = "restriction"
        /\ LET r == get_restriction_tag(entries, schema, tcls[i])
           IN /\ entries' = r.entries
              /\ schema' = r.schema
              /\ node' = [node EXCEPT ![i] = Len(r.schema)]
        /\ pc' = [pc EXCEPT ![i] = "length"]
        /\ UNCHANGED tcls
        /\ UNCHANGED codec_vars

\* the "# length" block
EmitLength ==
    \E i \in 1..Len(pc) :
        /\ pc[i] = "length"
        /\ schema' = AppendFacets(schema, node[i], LengthFacets(tcls[i]))
        /\ pc' = [pc EXCEPT ![i] = "pattern"]
        /\ UNCHANGED <<entries, tcls, node>>
        /\ UNCHANGED codec_vars

\* the "# pattern" block
EmitPattern ==
    \E i \in 1..Len(pc) :
        /\ pc[i] = "pattern"
        /\ schema' = AppendFacets(schema, node[i], PatternFacets(tcls[i]))
        /\ pc' = [pc EXCEPT ![i] = "done"]
        /\ UNCHANGED <<entries, tcls, node>>
        /\ UNCHANGED codec_vars

ThreadNext ==
    \/ Begin
    \/ Check
    \/ GetRestrictionTag
    \/ EmitLength
    \/ EmitPattern

ThreadSpec == Init /\ [][ThreadNext]_vars

----------------------------------------------------------------------------
(* the properties *)

\* the text the exception carries
Carries(r, text) == \E k \in 1..Len(r.args) : r.args[k] = text

\* C1: a date written by Date.to_xml is read back by Date.from_xml as an
\* equal date.
C1_DateRoundTrip ==
    (op = "Date.from_xml" /\ sent.t = "date") => ret = Return(sent)

\* C2: a datetime written by DateTime.to_xml is read back by
\* DateTime.from_xml with the same zone class (UTC, fixed offset, naive) and
\* the same offset in minutes.
C2_DateTimeRoundTrip ==
    (op = "DateTime.from_xml" /\ sent.t = "datetime") =>
        /\ ret.kind = "return"
        /\ ZoneClass(ret.value.tzinfo) = ZoneClass(sent.tzinfo)
        /\ UtcOffset(ret.value.tzinfo) = UtcOffset(sent.tzinfo)

\* sign * (HH * 60 + MM) of a matched suffix sHH:MM
SignedOffset(m) ==
    (IF m.g["tz_hr"][1] = "-" THEN 0 - 1 ELSE 1)
    * (DigitsVal(Tail(m.g["tz_hr"])) * 60 + DigitsVal(m.g["tz_min"]))

\* C3: the datetime DateTime.from_xml returns for a text of the
\* explicit-offset grammar, suffix sHH:MM, has the offset sign * (HH * 60 + MM)
\* minutes.
C3_OffsetMinutes ==
    (/\ op = "DateTime.from_xml"
     /\ wire.t = "str"
     /\ ret.kind = "return"
     /\ ~re_match(utc_re, wire.s).ok
     /\ re_match(offset_re, wire.s).ok) =>
        UtcOffset(ret.value.tzinfo) = SignedOffset(re_match(offset_re, wire.s))

\* C4: Boolean.from_xml returns a boolean for every text: true exactly when
\* the text is there, is not empty and begins with t or T, false otherwise,
\* also for an empty and for an absent text.
C4_BooleanResult ==
    op = "Boolean.from_xml" =>
        ret = Return(PyBool(/\ wire.t = "str"
                            /\ Len(wire.s) > 0
                            /\ wire.s[1] \in {"t", "T"}))

\* the restriction nodes of cls in the schema, and whether cls was passed to
\* add_to_schema
Count(sch, cls) == Cardinality({n \in 1..Len(sch) : sch[n].cls = cls})
Called(cls) == \E i \in 1..Len(tcls) : tcls[i] = cls
AllDefault(cls) == /\ cls.base_default
                   /\ cls.min_len = PyInt(0)
                   /\ cls.max_len = PyStr(<<"u", "n", "b", "o", "u", "n", "d", "e", "d">>)
                   /\ cls.pattern = None

\* C5: after any sequence of add_to_schema calls on one registry, every bound
\* type that was passed and is not all-default has exactly one restriction
\* node, with its facets once, and every other type has none.
C5_EmitOnce ==
    /\ \A cls \in Classes :
          Count(schema, cls) = IF Called(cls) /\ ~AllDefault(cls) THEN 1 ELSE 0
    /\ \A n \in 1..Len(schema) : \A j, k \in 1..Len(schema[n].facets) :
          schema[n].facets[j].tag = schema[n].facets[k].tag => j = k

\* a type that is not all-default was passed twice and has one node
C5_Witness ==
    \E i, j \in 1..Len(tcls) :
        /\ i < j
        /\ tcls[i] = tcls[j]
        /\ ~AllDefault(tcls[i])
        /\ Count(schema, tcls[i]) = 1

HasFacet(n, tag) == \E k \in 1..Len(n.facets) : n.facets[k].tag = tag
FacetIs(n, tag, value) ==
    \E k \in 1..Len(n.facets) : n.facets[k] = Facet(tag, value)
Before(n, a, b) ==
    \A j, k \in 1..Len(n.facets) :
        (n.facets[j].tag = a /\ n.facets[k].tag = b) => j < k

\* String(max_len=10)
StringMax10 == [min_len |-> PyInt(0), max_len |-> PyInt(10), pattern |-> None,
                base_default |-> TRUE]

\* C6: a restriction node holds, in this order: length alone of the length
\* family when min_len = max_len; otherwise minLength iff min_len is not 0 and
\* maxLength iff max_len is not "unbounded"; then pattern iff the pattern is
\* not None. String(max_len=10) gives the one facet maxLength "10".
C6_Facets ==
    \A i \in 1..Len(schema) :
        LET n == schema[i]
            c == n.cls
        IN /\ \A j, k \in 1..Len(n.facets) : n.facets[j].tag = n.facets[k].tag => j = k
           /\ \A k \in 1..Len(n.facets) :
                 n.facets[k].tag \in {"length", "minLength", "maxLength", "pattern"}
           /\ IF c.min_len = c.max_len
              THEN /\ FacetIs(n, "length", str(c.min_len))
                   /\ ~HasFacet(n, "minLength")
                   /\ ~HasFacet(n, "maxLength")
              ELSE /\ ~HasFacet(n, "length")
                   /\ HasFacet(n, "minLength") <=> c.min_len # PyInt(0)
                   /\ HasFacet(n, "minLength") => FacetIs(n, "minLength", str(c.min_len))
                   /\ HasFacet(n, "maxLength") <=> c.max_len.t = "int"
                   /\ HasFacet(n, "maxLength") => FacetIs(n, "maxLength", str(c.max_len))
           /\ HasFacet(n, "pattern") <=> c.pattern # None
           /\ HasFacet(n, "pattern") => FacetIs(n, "pattern", c.pattern.s)
           /\ Before(n, "minLength", "maxLength")
           /\ Before(n, "length", "pattern")
           /\ Before(n, "minLength", "pattern")
           /\ Before(n, "maxLength", "pattern")
           /\ c = StringMax10 => n.facets = <<Facet("maxLength", <<"1", "0">>)>>

\* String(max_len=10) has its restriction, and so has a type with all four
\* attributes set
C6_Witness ==
    /\ \E i \in 1..Len(schema) :
          schema[i].cls = StringMax10 /\ Len(schema[i].facets) = 1
    /\ \E i \in 1..Len(schema) :
          HasFacet(schema[i], "minLength") /\ HasFacet(schema[i], "maxLength")
          /\ HasFacet(schema[i], "pattern")

\* a date text that is not YYYY-MM-DD, or is with a month or day out of range
MalformedDate(text) ==
    LET m == re_match(re_compile(date_pattern), text)
    IN ~m.ok \/ DateParseDate(m).kind = "raise"

\* C7: for a malformed date text Date.from_xml fails with the 'not in known
\* format' error, which carries the text.
C7_MalformedDate ==
    (op = "Date.from_xml" /\ wire.t = "str" /\ MalformedDate(wire.s)) =>
        /\ ret.kind = "raise"
        /\ ret.fmt = "Date [%s] not in known format"
        /\ Carries(ret, wire)

\* the grammars among UTC, offset, naive that match a text
Matching(text) == {re \in {utc_re, offset_re, local_re} : re_match(re, text).ok}

\* the grammars that match a text up to its end
MatchingAll(text) == {re \in Matching(text) : re_match(re, text).end = Len(text)}

\* C8: at most one of the three datetime grammars matches a text, and a text
\* none matches, also a datetime followed by other characters, makes
\* DateTime.from_xml fail with the 'not in known format' error carrying the
\* text.
C8_MutuallyExclusive ==
    wire.t = "str" =>
        /\ Cardinality(Matching(wire.s)) <= 1
        /\ (op = "DateTime.from_xml" /\ MatchingAll(wire.s) = {}) =>
              /\ ret.kind = "raise"
              /\ ret.fmt = "DateTime [%s] not in known format"
              /\ Carries(ret, wire)

\* round(frac * 1000000) of the fractional group ".ddd", 0 without the group
RoundMicro(frac) ==
    IF Len(frac) = 0 THEN 0
    ELSE LET n == Len(frac) - 1
             d == DigitsVal(Tail(frac))
         IN IF n <= 6 THEN d * (10 ^ (6 - n))
            ELSE (2 * d + 10 ^ (n - 6)) \div (2 * (10 ^ (n - 6)))

\* C9: the microsecond of the datetime DateTime.from_xml returns is
\* round(frac * 1000000), frac being the fraction written in the text.
C9_Microsecond ==
    (op = "DateTime.from_xml" /\ ret.kind = "return") =>
        ret.value.microsecond = RoundMicro(re_match(local_re, wire.s).g["sec_frac"])

\* C10: under every interleaving of add_to_schema calls on one registry a
\* bound type has at most one restriction node.
C10_AtMostOne ==
    \A cls \in Classes : Count(schema, cls) <= 1

====
